---- MODULE Spec2Model ----
(***************************************************************************)
(* Model of the Liara Terraform provider's app resource                    *)
(* (internal/provider/app_resource.go): the Create / Read / Update /       *)
(* Delete handlers, the five toggle helpers and the projection of the      *)
(* remote app record into the resource model.                              *)
(*                                                                         *)
(* Every handler is one action.  The remote platform is an input: each     *)
(* remote call draws its outcome (transport error, or a response with a    *)
(* status code and a body that may or may not be readable) from Outcomes.  *)
(***************************************************************************)
EXTENDS Integers, Sequences, FiniteSets, TLC

VARIABLES
    state,    \* the persisted Terraform state of the resource instance, or Absent
    op,       \* the handler that ran last ("none" before the first one)
    calls,    \* the remote calls the last handler issued, in order, with their outcomes
    diags,    \* resp.Diagnostics of the last handler
    stateSet, \* TRUE iff the last handler reached resp.State.Set
    created,  \* the name given by the configuration the instance was created from
    budget,   \* how many more remote calls the platform may fail
    plan,     \* req.Plan of the last handler (Absent when it had none)
    environ,  \* the environment variables of the provider process
    config,   \* the provider block of the configuration
    providerData,  \* resp.ResourceData of the provider's Configure, Nil until it is set
    providerDiags, \* resp.Diagnostics of the provider's Configure
    dataSource     \* the app data source: its configuration and what its Read left

\* The variables of the provider's configuration.
pvars == <<environ, config, providerData, providerDiags>>
vars == <<state, op, calls, diags, stateSet, created, budget, plan, pvars, dataSource>>

-----------------------------------------------------------------------------
(* Bounds of the model                                                     *)

\* The number of remote calls that may fail over one behaviour of Spec.
MaxFaults == 1

-----------------------------------------------------------------------------
(* Attribute values of terraform-plugin-framework: a state (null, unknown  *)
(* or known) and a Go value, which is the zero value unless known.         *)

StringNull == [state |-> "null", value |-> ""]
StringUnknown == [state |-> "unknown", value |-> ""]
StringValue(s) == [state |-> "known", value |-> s]
BoolNull == [state |-> "null", value |-> FALSE]
BoolValue(b) == [state |-> "known", value |-> b]
NoElements == [k \in {} |-> StringNull]
MapNull == [state |-> "null", elements |-> NoElements]
MapValueMust(elems) == [state |-> "known", elements |-> elems]

IsNull(v) == v.state = "null"
ValueString(v) == v.value
ValueBool(v) == v.value
\* A Go pointer is nil (the empty tuple) or points to one value.
Nil == <<>>
ValueStringPointer(v) == IF IsNull(v) THEN Nil ELSE <<v.value>>
ValueBoolPointer(v) == IF IsNull(v) THEN Nil ELSE <<v.value>>
\* types.String.String(): the human-readable rendering, quoted with %q.
String(v) ==
    IF v.state = "unknown" THEN "<unknown>"
    ELSE IF v.state = "null" THEN "<null>"
    ELSE "\"" \o v.value \o "\""

\* fmt.Sprintf(format, arg) with one %s verb: the fixed text and the argument.
Sprintf(format, arg) == <<format, arg>>
\* err.Error(): the text of an error, alone.
Error(e) == <<e>>

Diagnostic(summary, detail) == [severity |-> "error", summary |-> summary, detail |-> detail]
HasError(ds) == \E i \in 1..Len(ds) : ds[i].severity = "error"

-----------------------------------------------------------------------------
(* The resource model and the configurations of the model                  *)

Absent == [present |-> FALSE]

Names == {"app1", "app2"}
PlanIDs == {"p1", "p2"}
EnvKeys == {"K1"}

\* envs: absent, empty, one variable, or one variable whose value is null.
EnvsValues ==
    { MapNull,
      MapValueMust(NoElements),
      MapValueMust([k \in EnvKeys |-> StringValue("v1")]),
      MapValueMust([k \in EnvKeys |-> StringNull]) }

\* What a configuration can set: id is computed, the other twelve attributes
\* are required or optional.
Configs ==
    { [present |-> TRUE,
       ID |-> StringUnknown,
       Name |-> StringValue(n),
       PlanID |-> StringValue(p),
       BundlePlanID |-> StringNull,
       Platform |-> StringValue("node"),
       ReadOnlyRootFilesystem |-> BoolValue(FALSE),
       NetworkName |-> StringNull,
       RollingUpdate |-> ru,
       TurnOff |-> off,
       Envs |-> ev,
       StaticIP |-> StringNull,
       EnableStaticIP |-> ip,
       DisableDefaultSubDomain |-> sd] :
      n \in Names, p \in PlanIDs,
      ru \in {BoolValue(FALSE), BoolValue(TRUE)},
      off \in {BoolValue(FALSE), BoolValue(TRUE)},
      ev \in EnvsValues,
      ip \in {BoolNull, BoolValue(TRUE)},
      sd \in {BoolNull, BoolValue(TRUE)} }

\* req.Plan of Create: the configuration, id not yet known.
CreatePlan(cfg) == cfg
\* req.Plan of Update: the configuration, id taken from the prior state
\* (stringplanmodifier.UseStateForUnknown).
UpdatePlan(cfg, prior) == [cfg EXCEPT !.ID = prior.ID]

-----------------------------------------------------------------------------
(* The provider's configuration (internal/provider/provider.go)            *)

\* A nil error.
NoError == ""

defaultAPIEndpoint == "https://api.iran.liara.ir"
defaultWebsocketEndpoint == "wss://api.iran.liara.ir"
defaultTimeout == 30

Int64Null == [state |-> "null", value |-> 0]
Int64Unknown == [state |-> "unknown", value |-> 0]
Int64Value(n) == [state |-> "known", value |-> n]
IsUnknown(v) == v.state = "unknown"
ValueInt64(v) == v.value

\* resp.Diagnostics.AddAttributeError(path.Root(attribute), summary, detail)
AddAttributeError(attribute, summary, detail) == Diagnostic(summary, <<attribute, detail>>)

\* os.Getenv: the value of the variable, "" when it is not set.
Getenv(env, key) == env[key]

\* strconv.ParseInt(s, 10, 64), s given as its sequence of characters: an
\* optional sign and then one or more decimal digits.  (The strings of the
\* model are short, so the range error of 64 bits is not met.)
Digits == <<"0", "1", "2", "3", "4", "5", "6", "7", "8", "9">>
IsDigit(c) == \E i \in 1..Len(Digits) : Digits[i] = c
DigitOf(c) == (CHOOSE i \in 1..Len(Digits) : Digits[i] = c) - 1
RECURSIVE ParseUint(_)
ParseUint(cs) ==
    IF cs = <<>> THEN 0
    ELSE ParseUint(SubSeq(cs, 1, Len(cs) - 1)) * 10 + DigitOf(cs[Len(cs)])
ParseInt(s) ==
    LET signed == s # <<>> /\ s[1] \in {"+", "-"}
        ds == IF signed THEN Tail(s) ELSE s IN
    IF ds = <<>> \/ \E i \in 1..Len(ds) : ~IsDigit(ds[i])
    THEN [err |-> "invalid syntax", value |-> 0]
    ELSE [err |-> NoError,
          value |-> IF signed /\ s[1] = "-" THEN 0 - ParseUint(ds) ELSE ParseUint(ds)]

\* &LiaraProviderData{...}: the Timeout field is never assigned; the resolved
\* timeout goes to the HTTP client, in seconds.
LiaraProviderData(apiEndpoint, websocketEndpoint, accessToken, timeout) ==
    <<[APIEndpoint |-> apiEndpoint,
       WebsocketEndpoint |-> websocketEndpoint,
       AccessToken |-> accessToken,
       Timeout |-> 0,
       HTTPClient |-> [Timeout |-> [seconds |-> timeout]]]>>

\* The checks of Configure that no configuration value is unknown.
UnknownDiags(data) ==
    (IF IsUnknown(data.APIEndpoint)
     THEN <<AddAttributeError("api_endpoint", "Unknown Liara API Endpoint",
              "The provider cannot create the Liara API client as there is an unknown configuration value for the Liara API endpoint. Either target apply the source of the value first, set the value statically in the configuration, or use the LIARA_API_ENDPOINT environment variable.")>>
     ELSE <<>>)
    \o (IF IsUnknown(data.WebsocketEndpoint)
     THEN <<AddAttributeError("websocket_endpoint", "Unknown Liara Websocket Endpoint",
              "The provider cannot create the Liara API client as there is an unknown configuration value for the Liara Websocket endpoint. Either target apply the source of the value first, set the value statically in the configuration, or use the LIARA_WEBSOCKET_ENDPOINT environment variable.")>>
     ELSE <<>>)
    \o (IF IsUnknown(data.AccessToken)
     THEN <<AddAttributeError("access_token", "Unknown Liara Access Token",
              "The provider cannot create the Liara API client as there is an unknown configuration value for the Liara Access Token. Either target apply the source of the value first, set the value statically in the configuration, or use the LIARA_ACCESS_TOKEN environment variable.")>>
     ELSE <<>>)
    \o (IF IsUnknown(data.Timeout)
     THEN <<AddAttributeError("timeout", "Unknown Liara Timeout",
              "The provider cannot create the Liara API client as there is an unknown configuration value for the Liara Timeout. Either target apply the source of the value first, set the value statically in the configuration, or use the LIARA_TIMEOUT environment variable.")>>
     ELSE <<>>)

\* Steps 1 to 3 of Configure for the three strings: the default, overridden
\* by the environment variable when it is not empty, overridden by the
\* configuration value when it is not null.
ResolveString(default, env, cfg) ==
    LET fromEnv == IF Len(env) > 0 THEN env ELSE default IN
    IF ~IsNull(cfg) THEN ValueString(cfg) ELSE fromEnv

\* The checks of Configure that no resolved value is empty.
MissingDiags(apiEndpoint, websocketEndpoint, accessToken) ==
    (IF Len(apiEndpoint) = 0
     THEN <<AddAttributeError("api_endpoint", "Missing Liara API Endpoint",
              "The provider cannot create the Liara API client as there is a missing or empty value for the Liara API endpoint. Set the api_endpoint value in the configuration or use the LIARA_API_ENDPOINT environment variable. If either is already set, ensure the value is not empty.")>>
     ELSE <<>>)
    \o (IF Len(websocketEndpoint) = 0
     THEN <<AddAttributeError("websocket_endpoint", "Missing Liara Websocket Endpoint",
              "The provider cannot create the Liara API client as there is a missing or empty value for the Liara Websocket endpoint. Set the websocket_endpoint value in the configuration or use the LIARA_WEBSOCKET_ENDPOINT environment variable. If either is already set, ensure the value is not empty.")>>
     ELSE <<>>)
    \o (IF Len(accessToken) = 0
     THEN <<AddAttributeError("access_token", "Missing Liara Access Token",
              "The provider cannot create the Liara API client as there is a missing or empty value for the Liara Access Token. Set the access_token value in the configuration or use the LIARA_ACCESS_TOKEN environment variable. If either is already set, ensure the value is not empty.")>>
     ELSE <<>>)

\* ConfigureResponse with the bundle handed over whatever the diagnostics.
ConfigureResponse_HandsBundleOnError(data, env) ==
    LET unknown == UnknownDiags(data)
        env_timeout == Getenv(env, "LIARA_TIMEOUT")
        parsed == ParseInt(env_timeout)
        apiEndpoint == ResolveString(defaultAPIEndpoint, Getenv(env, "LIARA_API_ENDPOINT"), data.APIEndpoint)
        websocketEndpoint == ResolveString(defaultWebsocketEndpoint, Getenv(env, "LIARA_WEBSOCKET_ENDPOINT"), data.WebsocketEndpoint)
        accessToken == ResolveString("", Getenv(env, "LIARA_ACCESS_TOKEN"), data.AccessToken)
        timeout == IF ~IsNull(data.Timeout) THEN ValueInt64(data.Timeout)
                   ELSE IF Len(env_timeout) > 0 THEN parsed.value ELSE defaultTimeout
        missing == MissingDiags(apiEndpoint, websocketEndpoint, accessToken)
    IN IF Len(env_timeout) > 0 /\ parsed.err # NoError
       THEN [data |-> Nil,
             diags |-> unknown \o <<Diagnostic("Invalid timeout value",
                          Sprintf("Invalid timeout value: %s", parsed.err))>>]
       ELSE [data |-> LiaraProviderData(apiEndpoint, websocketEndpoint, accessToken, timeout),
             diags |-> unknown \o missing]

\* What Configure leaves for the configuration data and the environment env:
\* resp.ResourceData (Nil when it returns before setting it) and
\* resp.Diagnostics.
ConfigureResponse(data, env) ==
    LET unknown == UnknownDiags(data)
        env_timeout == Getenv(env, "LIARA_TIMEOUT")
        parsed == ParseInt(env_timeout)
        apiEndpoint == ResolveString(defaultAPIEndpoint, Getenv(env, "LIARA_API_ENDPOINT"), data.APIEndpoint)
        websocketEndpoint == ResolveString(defaultWebsocketEndpoint, Getenv(env, "LIARA_WEBSOCKET_ENDPOINT"), data.WebsocketEndpoint)
        accessToken == ResolveString("", Getenv(env, "LIARA_ACCESS_TOKEN"), data.AccessToken)
        timeout == IF ~IsNull(data.Timeout) THEN ValueInt64(data.Timeout)
                   ELSE IF Len(env_timeout) > 0 THEN parsed.value ELSE defaultTimeout
        missing == MissingDiags(apiEndpoint, websocketEndpoint, accessToken)
    IN IF Len(env_timeout) > 0 /\ parsed.err # NoError
       THEN [data |-> Nil,
             diags |-> unknown \o <<Diagnostic("Invalid timeout value",
                          Sprintf("Invalid timeout value: %s", parsed.err))>>]
       ELSE IF HasError(unknown \o missing)
       THEN [data |-> Nil, diags |-> unknown \o missing]
       ELSE [data |-> LiaraProviderData(apiEndpoint, websocketEndpoint, accessToken, timeout),
             diags |-> unknown \o missing]

\* The provider blocks of the model.  api_endpoint, websocket_endpoint and
\* timeout are optional; access_token is required, so it is never null.
ProviderStrings(v) == {StringNull, StringUnknown, StringValue(""), StringValue(v)}
ProviderConfigs ==
    [APIEndpoint : ProviderStrings("https://cfg.example"),
     WebsocketEndpoint : ProviderStrings("wss://cfg.example"),
     AccessToken : ProviderStrings("tok-cfg") \ {StringNull},
     Timeout : {Int64Null, Int64Unknown, Int64Value(10)}]
\* The environments of the model: each variable unset or set; LIARA_TIMEOUT
\* set to "60", to "-5" or to "abc".
Environs ==
    [LIARA_API_ENDPOINT : {"", "https://env.example"},
     LIARA_WEBSOCKET_ENDPOINT : {"", "wss://env.example"},
     LIARA_TIMEOUT : {<<>>, <<"6", "0">>, <<"-", "5">>, <<"a", "b", "c">>},
     LIARA_ACCESS_TOKEN : {"", "tok-env"}]

\* LiaraProvider.Configure: it runs once, before any handler of the resource.
Configure ==
    /\ providerData = Nil
    /\ providerDiags = <<>>
    /\ LET r == ConfigureResponse(config, environ) IN
       /\ providerData' = r.data
       /\ providerDiags' = r.diags
    /\ UNCHANGED <<state, op, calls, diags, stateSet, created, budget, plan, environ, config, dataSource>>

\* AppResource.Configure: r.client is set from the provider's data, and only
\* when there is one; the handlers issue their calls through r.client.
ClientReady == providerData # Nil

-----------------------------------------------------------------------------
(* Outcomes of a remote call                                               *)

StatusOK == 200

\* responseModel.Project, restricted to the fields Read uses.
Project(id, type, defaultSubdomain, rofs, zeroDowntime, scale, envs, planID, bundlePlanID, network, ip) ==
    [ID |-> id, Type |-> type, DefaultSubdomain |-> defaultSubdomain,
     ReadOnlyRootFilesystem |-> rofs, ZeroDowntime |-> zeroDowntime, Scale |-> scale,
     Envs |-> envs, PlanID |-> planID, BundlePlanID |-> bundlePlanID,
     Network |-> [Name |-> network], Node |-> [IP |-> ip]]
\* responseModel as declared, before any decode: Go's zero values.
ZeroProject == Project("", "", FALSE, FALSE, FALSE, 0, <<>>, "", "", "", "")
\* A response body: its raw text, whether it is the JSON of an app, and the
\* project it then decodes to.
TextBody(t) == [text |-> t, json |-> FALSE, project |-> ZeroProject]

\* What a client call returns: err (NoError for nil), and when err is nil a
\* response with its status code, its body, and the error io.ReadAll meets
\* when the body is read (NoError when it can be read).
TransportError == [err |-> "dial tcp: connection refused", StatusCode |-> 0, Body |-> TextBody(""), readErr |-> NoError]
Response(code, body, readErr) == [err |-> NoError, StatusCode |-> code, Body |-> body, readErr |-> readErr]

OK == Response(StatusOK, TextBody("{}"), NoError)
\* The outcomes of a call that fails: a transport error, a 2xx status other
\* than 200, a 404, and a 500 whose body cannot be read.
Failures ==
    { TransportError,
      Response(201, TextBody("created"), NoError),
      Response(404, TextBody("not found"), NoError),
      Response(500, TextBody(""), "unexpected EOF") }
Outcomes == {OK} \cup Failures
\* The outcome recorded for a call that is not made.
NoCall == [err |-> NoError, StatusCode |-> -1, Body |-> TextBody(""), readErr |-> NoError]

Fault(o) == o \in Failures
\* The outcomes the platform may give to a call when it may fail b more calls.
May(b) == IF b > 0 THEN Outcomes ELSE {OK}
Left(b, o) == IF Fault(o) THEN b - 1 ELSE b

Call(name, args, o) == [call |-> name, args |-> args, resp |-> o]
\* What a helper hands back: the calls it issued and the diagnostics it added.
Done(cs, ds) == [calls |-> cs, diags |-> ds]
Skipped == Done(<<>>, <<>>)

-----------------------------------------------------------------------------
(* The toggle helpers                                                      *)

\* switchMap with the two modes exchanged.
switchMap_Exchanged(b) == IF b THEN "disable" ELSE "enable"

\* switchMap of rollingUpdate, enableStaticIP and disableDefaultSubdomain.
switchMap(b) == IF b THEN "enable" ELSE "disable"

\* turnOff with any status below 300 taken for success.
turnOff_Accepts2xx(data, o) ==
    LET c == Call("TurnApp", [name |-> ValueString(data.Name)], o) IN
    IF o.err # NoError
    THEN Done(<<c>>, <<Diagnostic("Turning off the app failed",
                 Sprintf("Unable to turn off the app, got error: %s", o.err))>>)
    ELSE IF o.StatusCode >= 300
    THEN IF o.readErr # NoError
         THEN Done(<<c>>, <<Diagnostic("reading turn-off response payload failed", Error(o.readErr))>>)
         ELSE Done(<<c>>, <<Diagnostic("Turning off the app failed",
                 Sprintf("Unable to turn off the app, got error: %s", o.Body.text))>>)
    ELSE Done(<<c>>, <<>>)

turnOff(data, o) ==
    LET c == Call("TurnApp", [name |-> ValueString(data.Name)], o) IN
    IF o.err # NoError
    THEN Done(<<c>>, <<Diagnostic("Turning off the app failed",
                 Sprintf("Unable to turn off the app, got error: %s", o.err))>>)
    ELSE IF o.StatusCode # StatusOK
    THEN IF o.readErr # NoError
         THEN Done(<<c>>, <<Diagnostic("reading turn-off response payload failed", Error(o.readErr))>>)
         ELSE Done(<<c>>, <<Diagnostic("Turning off the app failed",
                 Sprintf("Unable to turn off the app, got error: %s", o.Body.text))>>)
    ELSE Done(<<c>>, <<>>)

\* rollingUpdate with a failed call issued a second time.
rollingUpdate_RetriesOnce(data, o) ==
    LET c == Call("ZeroDowntime",
                  [name |-> ValueString(data.Name),
                   mode |-> switchMap(ValueBool(data.RollingUpdate))], o) IN
    IF o.err # NoError
    THEN Done(<<c, c>>, <<Diagnostic("Updating rolling-update configuration failed",
                 Sprintf("Unable to update rolling-update configuration, got error: %s", o.err))>>)
    ELSE IF o.StatusCode # StatusOK
    THEN IF o.readErr # NoError
         THEN Done(<<c, c>>, <<Diagnostic("reading rolling-update response payload failed", Error(o.readErr))>>)
         ELSE Done(<<c, c>>, <<Diagnostic("Updating rolling-update configuration failed",
                 Sprintf("Unable to update rolling-update configuration, got error: %s", o.Body.text))>>)
    ELSE Done(<<c>>, <<>>)

rollingUpdate(data, o) ==
    LET c == Call("ZeroDowntime",
                  [name |-> ValueString(data.Name),
                   mode |-> switchMap(ValueBool(data.RollingUpdate))], o) IN
    IF o.err # NoError
    THEN Done(<<c>>, <<Diagnostic("Updating rolling-update configuration failed",
                 Sprintf("Unable to update rolling-update configuration, got error: %s", o.err))>>)
    ELSE IF o.StatusCode # StatusOK
    THEN IF o.readErr # NoError
         THEN Done(<<c>>, <<Diagnostic("reading rolling-update response payload failed", Error(o.readErr))>>)
         ELSE Done(<<c>>, <<Diagnostic("Updating rolling-update configuration failed",
                 Sprintf("Unable to update rolling-update configuration, got error: %s", o.Body.text))>>)
    ELSE Done(<<c>>, <<>>)

\* types.Map.ElementsAs(ctx, &payload.Variables, false) into a map of
\* strings: a null or unknown element cannot be converted.
ElementsAsOK(m) == \A k \in DOMAIN m.elements : m.elements[k].state = "known"
ElementsAs(m) == [k \in DOMAIN m.elements |-> m.elements[k].value]

updateEnvs(data, o) ==
    IF ~ElementsAsOK(data.Envs)
    THEN Done(<<>>, <<Diagnostic("Value Conversion Error", Error("unhandled null values"))>>)
    ELSE
    LET c == Call("UpdateEnvs",
                  [Project |-> ValueStringPointer(data.Name),
                   Variables |-> ElementsAs(data.Envs)], o) IN
    IF o.err # NoError
    THEN Done(<<c>>, <<Diagnostic("Updating envs failed",
                 Sprintf("Unable to update envs, got error: %s", o.err))>>)
    ELSE IF o.StatusCode # StatusOK
    THEN IF o.readErr # NoError
         THEN Done(<<c>>, <<Diagnostic("reading envs response payload failed", Error(o.readErr))>>)
         ELSE Done(<<c>>, <<Diagnostic("Updating envs failed",
                 Sprintf("Unable to update envs, got error: %s", o.Body.text))>>)
    ELSE Done(<<c>>, <<>>)

enableStaticIP(data, o) ==
    LET c == Call("IpStatic",
                  [name |-> ValueString(data.Name),
                   mode |-> switchMap(ValueBool(data.EnableStaticIP))], o) IN
    IF o.err # NoError
    THEN Done(<<c>>, <<Diagnostic("Enabling static ip failed",
                 Sprintf("Unable to enable static ip, got error: %s", o.err))>>)
    ELSE IF o.StatusCode # StatusOK
    THEN IF o.readErr # NoError
         THEN Done(<<c>>, <<Diagnostic("reading static ip response payload failed", Error(o.readErr))>>)
         ELSE Done(<<c>>, <<Diagnostic("Enabling static ip failed",
                 Sprintf("Unable to enable static ip, got error: %s", o.Body.text))>>)
    ELSE Done(<<c>>, <<>>)

\* disableDefaultSubdomain without the return after a failed read of the body.
disableDefaultSubdomain_NoReturnAfterReadError(data, o) ==
    LET c == Call("DefaultSubdomain",
                  [name |-> ValueString(data.Name),
                   mode |-> switchMap(~ValueBool(data.DisableDefaultSubDomain))], o) IN
    IF o.err # NoError
    THEN Done(<<c>>, <<Diagnostic("Disabling default subdomain failed",
                 Sprintf("Unable to disable default subdomain, got error: %s", o.err))>>)
    ELSE IF o.StatusCode # StatusOK
    THEN IF o.readErr # NoError
         THEN Done(<<c>>, <<Diagnostic("reading default subdomain response payload failed", Error(o.readErr)),
                           Diagnostic("Disabling default subdomain failed",
                 Sprintf("Unable to disable default subdomain, got error: %s", o.Body.text))>>)
         ELSE Done(<<c>>, <<Diagnostic("Disabling default subdomain failed",
                 Sprintf("Unable to disable default subdomain, got error: %s", o.Body.text))>>)
    ELSE Done(<<c>>, <<>>)

disableDefaultSubdomain(data, o) ==
    LET c == Call("DefaultSubdomain",
                  [name |-> ValueString(data.Name),
                   mode |-> switchMap(~ValueBool(data.DisableDefaultSubDomain))], o) IN
    IF o.err # NoError
    THEN Done(<<c>>, <<Diagnostic("Disabling default subdomain failed",
                 Sprintf("Unable to disable default subdomain, got error: %s", o.err))>>)
    ELSE IF o.StatusCode # StatusOK
    THEN IF o.readErr # NoError
         THEN Done(<<c>>, <<Diagnostic("reading default subdomain response payload failed", Error(o.readErr))>>)
         ELSE Done(<<c>>, <<Diagnostic("Disabling default subdomain failed",
                 Sprintf("Unable to disable default subdomain, got error: %s", o.Body.text))>>)
    ELSE Done(<<c>>, <<>>)

-----------------------------------------------------------------------------
(* Create                                                                  *)

\* CreateBase with any status below 300 taken for success.
CreateBase_Accepts2xx(data, o) ==
    LET c == Call("CreateApp",
                  [Name |-> ValueStringPointer(data.Name),
                   PlanID |-> ValueStringPointer(data.PlanID),
                   Platform |-> ValueStringPointer(data.Platform),
                   ReadOnlyRootFilesystem |-> ValueBoolPointer(data.ReadOnlyRootFilesystem)], o) IN
    IF o.err # NoError
    THEN Done(<<c>>, <<Diagnostic("App creation failed",
                 Sprintf("Unable to create app, got error: %s", o.err))>>)
    ELSE IF o.StatusCode >= 300
    THEN IF o.readErr # NoError
         THEN Done(<<c>>, <<Diagnostic("reading response payload failed", Error(o.readErr))>>)
         ELSE Done(<<c>>, <<Diagnostic("App creation failed",
                 Sprintf("Unable to create app, got error: %s", o.Body.text))>>)
    ELSE Done(<<c>>, <<>>)

\* r.client.CreateApp and the handling of its outcome: the diagnostics it
\* adds, and whether Create goes on.
CreateBase(data, o) ==
    LET c == Call("CreateApp",
                  [Name |-> ValueStringPointer(data.Name),
                   PlanID |-> ValueStringPointer(data.PlanID),
                   Platform |-> ValueStringPointer(data.Platform),
                   ReadOnlyRootFilesystem |-> ValueBoolPointer(data.ReadOnlyRootFilesystem)], o) IN
    IF o.err # NoError
    THEN Done(<<c>>, <<Diagnostic("App creation failed",
                 Sprintf("Unable to create app, got error: %s", o.err))>>)
    ELSE IF o.StatusCode # StatusOK
    THEN IF o.readErr # NoError
         THEN Done(<<c>>, <<Diagnostic("reading response payload failed", Error(o.readErr))>>)
         ELSE Done(<<c>>, <<Diagnostic("App creation failed",
                 Sprintf("Unable to create app, got error: %s", o.Body.text))>>)
    ELSE Done(<<c>>, <<>>)

\* CreateToggles with a helper run only while no helper has failed.
CreateToggles_StopAtFirstError(data, o) ==
    LET t1 == IF ValueBool(data.TurnOff) THEN turnOff(data, o.power) ELSE Skipped
        t2 == IF ValueBool(data.RollingUpdate) /\ t1.diags = <<>>
              THEN rollingUpdate(data, o.rolling) ELSE Skipped
        t3 == IF ~IsNull(data.Envs) /\ t1.diags \o t2.diags = <<>>
              THEN updateEnvs(data, o.envs) ELSE Skipped
        t4 == IF ValueBool(data.EnableStaticIP) /\ t1.diags \o t2.diags \o t3.diags = <<>>
              THEN enableStaticIP(data, o.ip) ELSE Skipped
        t5 == IF ValueBool(data.DisableDefaultSubDomain)
                 /\ t1.diags \o t2.diags \o t3.diags \o t4.diags = <<>>
              THEN disableDefaultSubdomain(data, o.subdomain) ELSE Skipped
    IN Done(t1.calls \o t2.calls \o t3.calls \o t4.calls \o t5.calls,
            t1.diags \o t2.diags \o t3.diags \o t4.diags \o t5.diags)

\* The five conditional helper calls of Create, in the order of the code.
\* o gives the outcome of each helper's remote call.
CreateToggles(data, o) ==
    LET t1 == IF ValueBool(data.TurnOff) THEN turnOff(data, o.power) ELSE Skipped
        t2 == IF ValueBool(data.RollingUpdate) THEN rollingUpdate(data, o.rolling) ELSE Skipped
        t3 == IF ~IsNull(data.Envs) THEN updateEnvs(data, o.envs) ELSE Skipped
        t4 == IF ValueBool(data.EnableStaticIP) THEN enableStaticIP(data, o.ip) ELSE Skipped
        t5 == IF ValueBool(data.DisableDefaultSubDomain)
              THEN disableDefaultSubdomain(data, o.subdomain) ELSE Skipped
    IN Done(t1.calls \o t2.calls \o t3.calls \o t4.calls \o t5.calls,
            t1.diags \o t2.diags \o t3.diags \o t4.diags \o t5.diags)

\* CreateResponse with turn_off persisted as false when a helper failed.
CreateResponse_ClearsFlagOnError(data, prior, ob, o) ==
    LET base == CreateBase(data, ob)
        t == CreateToggles(data, o) IN
    IF HasError(base.diags)
    THEN [calls |-> base.calls, diags |-> base.diags, stateSet |-> FALSE, state |-> prior]
    ELSE [calls |-> base.calls \o t.calls, diags |-> base.diags \o t.diags,
          stateSet |-> TRUE,
          state |-> IF HasError(t.diags) THEN [data EXCEPT !.TurnOff = BoolValue(FALSE)] ELSE data]

\* What Create leaves: the calls it issued, resp.Diagnostics, whether it
\* reached resp.State.Set, and the state (prior when it did not).
CreateResponse(data, prior, ob, o) ==
    LET base == CreateBase(data, ob)
        t == CreateToggles(data, o) IN
    IF HasError(base.diags)
    THEN [calls |-> base.calls, diags |-> base.diags, stateSet |-> FALSE, state |-> prior]
    ELSE [calls |-> base.calls \o t.calls, diags |-> base.diags \o t.diags,
          stateSet |-> TRUE, state |-> data]

\* The outcomes a helper's call can have: none when the helper is not run or
\* issues no call, else what the platform may still do.
For(runs, b) == IF runs THEN May(b) ELSE {NoCall}
Sends(m) == ~IsNull(m) /\ ElementsAsOK(m)
HelperOutcomes(o1, o2, o3, o4, o5) ==
    [power |-> o1, rolling |-> o2, envs |-> o3, ip |-> o4, subdomain |-> o5]

\* Create, for a configuration drawn from cfgs.
Create(cfgs) ==
    /\ ClientReady
    /\ UNCHANGED <<pvars, dataSource>>
    /\ state = Absent
    /\ \E cfg \in cfgs :
       LET data == CreatePlan(cfg) IN
       \E ob \in May(budget) :
       LET go == ~Fault(ob)
           b1 == Left(budget, ob) IN
       \E o1 \in For(go /\ ValueBool(data.TurnOff), b1) :
       LET b2 == Left(b1, o1) IN
       \E o2 \in For(go /\ ValueBool(data.RollingUpdate), b2) :
       LET b3 == Left(b2, o2) IN
       \E o3 \in For(go /\ Sends(data.Envs), b3) :
       LET b4 == Left(b3, o3) IN
       \E o4 \in For(go /\ ValueBool(data.EnableStaticIP), b4) :
       LET b5 == Left(b4, o4) IN
       \E o5 \in For(go /\ ValueBool(data.DisableDefaultSubDomain), b5) :
       LET r == CreateResponse(data, state, ob, HelperOutcomes(o1, o2, o3, o4, o5)) IN
       /\ op' = "Create"
       /\ plan' = data
       /\ created' = IF r.state = Absent THEN created ELSE ValueString(data.Name)
       /\ budget' = Left(b5, o5)
       /\ calls' = r.calls
       /\ diags' = r.diags
       /\ stateSet' = r.stateSet
       /\ state' = r.state

-----------------------------------------------------------------------------
(* Read                                                                    *)

Env(k, v, enc) == [Key |-> k, Value |-> v, Encrypted |-> enc]
\* The env lists of the model: none, one, and two entries under one key.
EnvLists ==
    { <<>>,
      <<Env("K1", "v1", FALSE)>>,
      <<Env("K1", "v1", FALSE), Env("K1", "v2", TRUE)>> }

\* The remote ids: the app's name, or an opaque id.
RemoteIDs == {"app1", "65f1c0"}
Scales == {0, 1, 3}
NodeIPs == {"", "10.0.0.7"}

RemoteApps ==
    { Project(id, "node", ds, FALSE, zd, sc, ev, "p1", "", "", ip) :
      id \in RemoteIDs, ds \in BOOLEAN, zd \in BOOLEAN, sc \in Scales,
      ev \in EnvLists, ip \in NodeIPs }

\* A body that is the JSON of project r, and one that is no JSON at all.
JSONBody(r) == [text |-> "json", json |-> TRUE, project |-> r]
Malformed == TextBody("<html>")

\* json.NewDecoder(response.Body).Decode(&responseModel)
DecodeOK(o) == o.readErr = NoError /\ o.Body.json
Decode(o) == o.Body.project

\* What GetAppByName may return, for the apps rs, when the platform may fail
\* b more calls.
GetAppOutcomes(rs, b) ==
    { Response(StatusOK, JSONBody(r), NoError) : r \in rs }
    \cup {Response(StatusOK, Malformed, NoError)}
    \cup (IF b > 0 THEN Failures ELSE {})

\* envs := make(map); for _, env := range Envs { envs[env.Key] = env.Value }
RECURSIVE EnvMap(_)
EnvMap(list) ==
    IF list = <<>> THEN NoElements
    ELSE LET n == Len(list)
             init == EnvMap(SubSeq(list, 1, n - 1))
             last == list[n] IN
         [k \in DOMAIN init \cup {last.Key} |->
            IF k = last.Key THEN StringValue(last.Value) ELSE init[k]]

\* Projection with the default-subdomain flag copied, not negated.
Projection_CopiesDefaultSubdomain(data, project) ==
    LET enable == Len(project.Node.IP) > 0 IN
    [data EXCEPT
       !.ID = StringValue(project.ID),
       !.Name = StringValue(project.ID),
       !.PlanID = StringValue(project.PlanID),
       !.BundlePlanID = StringValue(project.BundlePlanID),
       !.Platform = StringValue(project.Type),
       !.ReadOnlyRootFilesystem = BoolValue(project.ReadOnlyRootFilesystem),
       !.NetworkName = StringValue(project.Network.Name),
       !.RollingUpdate = BoolValue(project.ZeroDowntime),
       !.TurnOff = BoolValue(project.Scale = 0),
       !.Envs = MapValueMust(EnvMap(project.Envs)),
       !.EnableStaticIP = BoolValue(enable),
       !.StaticIP = IF enable THEN StringValue(project.Node.IP) ELSE @,
       !.DisableDefaultSubDomain = BoolValue(project.DefaultSubdomain)]

\* Projection with turn_off left as it was in the prior state.
Projection_KeepsTurnOff(data, project) ==
    LET enable == Len(project.Node.IP) > 0 IN
    [data EXCEPT
       !.ID = StringValue(project.ID),
       !.Name = StringValue(project.ID),
       !.PlanID = StringValue(project.PlanID),
       !.BundlePlanID = StringValue(project.BundlePlanID),
       !.Platform = StringValue(project.Type),
       !.ReadOnlyRootFilesystem = BoolValue(project.ReadOnlyRootFilesystem),
       !.NetworkName = StringValue(project.Network.Name),
       !.RollingUpdate = BoolValue(project.ZeroDowntime),
       !.Envs = MapValueMust(EnvMap(project.Envs)),
       !.EnableStaticIP = BoolValue(enable),
       !.StaticIP = IF enable THEN StringValue(project.Node.IP) ELSE @,
       !.DisableDefaultSubDomain = BoolValue(~project.DefaultSubdomain)]

\* Projection with static_ip set to null when the remote has no address.
Projection_ClearsStaticIP(data, project) ==
    LET enable == Len(project.Node.IP) > 0 IN
    [data EXCEPT
       !.ID = StringValue(project.ID),
       !.Name = StringValue(project.ID),
       !.PlanID = StringValue(project.PlanID),
       !.BundlePlanID = StringValue(project.BundlePlanID),
       !.Platform = StringValue(project.Type),
       !.ReadOnlyRootFilesystem = BoolValue(project.ReadOnlyRootFilesystem),
       !.NetworkName = StringValue(project.Network.Name),
       !.RollingUpdate = BoolValue(project.ZeroDowntime),
       !.TurnOff = BoolValue(project.Scale = 0),
       !.Envs = MapValueMust(EnvMap(project.Envs)),
       !.EnableStaticIP = BoolValue(enable),
       !.StaticIP = IF enable THEN StringValue(project.Node.IP) ELSE StringNull,
       !.DisableDefaultSubDomain = BoolValue(~project.DefaultSubdomain)]

\* The assignments of Read to data, from the decoded project.
Projection(data, project) ==
    LET enable == Len(project.Node.IP) > 0 IN
    [data EXCEPT
       !.ID = StringValue(project.ID),
       !.Name = StringValue(project.ID),
       !.PlanID = StringValue(project.PlanID),
       !.BundlePlanID = StringValue(project.BundlePlanID),
       !.Platform = StringValue(project.Type),
       !.ReadOnlyRootFilesystem = BoolValue(project.ReadOnlyRootFilesystem),
       !.NetworkName = StringValue(project.Network.Name),
       !.RollingUpdate = BoolValue(project.ZeroDowntime),
       !.TurnOff = BoolValue(project.Scale = 0),
       !.Envs = MapValueMust(EnvMap(project.Envs)),
       !.EnableStaticIP = BoolValue(enable),
       !.StaticIP = IF enable THEN StringValue(project.Node.IP) ELSE @,
       !.DisableDefaultSubDomain = BoolValue(~project.DefaultSubdomain)]

\* ReadBase with any status below 300 taken for success.
ReadBase_Accepts2xx(data, o) ==
    LET c == Call("GetAppByName", [name |-> ValueString(data.Name)], o) IN
    IF o.err # NoError
    THEN Done(<<c>>, <<Diagnostic("Reading App info failed",
                 Sprintf("Unable to read app info, got error: %s", o.err))>>)
    ELSE IF o.StatusCode >= 300
    THEN IF o.readErr # NoError
         THEN Done(<<c>>, <<Diagnostic("reading response payload failed", Error(o.readErr))>>)
         ELSE Done(<<c>>, <<Diagnostic("Reading App info failed",
                 Sprintf("Unable to read app info, got error: %s", o.Body.text))>>)
    ELSE IF ~DecodeOK(o)
    THEN Done(<<c>>, <<Diagnostic("Decoding read response failed",
                 Sprintf("Unable to decode read response, got error: %s", "invalid character"))>>)
    ELSE Done(<<c>>, <<>>)

\* ReadBase with the error of the decode ignored.
ReadBase_IgnoresDecodeError(data, o) ==
    LET c == Call("GetAppByName", [name |-> ValueString(data.Name)], o) IN
    IF o.err # NoError
    THEN Done(<<c>>, <<Diagnostic("Reading App info failed",
                 Sprintf("Unable to read app info, got error: %s", o.err))>>)
    ELSE IF o.StatusCode # StatusOK
    THEN IF o.readErr # NoError
         THEN Done(<<c>>, <<Diagnostic("reading response payload failed", Error(o.readErr))>>)
         ELSE Done(<<c>>, <<Diagnostic("Reading App info failed",
                 Sprintf("Unable to read app info, got error: %s", o.Body.text))>>)
    ELSE Done(<<c>>, <<>>)

\* r.client.GetAppByName and the handling of its outcome up to the decode.
ReadBase(data, o) ==
    LET c == Call("GetAppByName", [name |-> ValueString(data.Name)], o) IN
    IF o.err # NoError
    THEN Done(<<c>>, <<Diagnostic("Reading App info failed",
                 Sprintf("Unable to read app info, got error: %s", o.err))>>)
    ELSE IF o.StatusCode # StatusOK
    THEN IF o.readErr # NoError
         THEN Done(<<c>>, <<Diagnostic("reading response payload failed", Error(o.readErr))>>)
         ELSE Done(<<c>>, <<Diagnostic("Reading App info failed",
                 Sprintf("Unable to read app info, got error: %s", o.Body.text))>>)
    ELSE IF ~DecodeOK(o)
    THEN Done(<<c>>, <<Diagnostic("Decoding read response failed",
                 Sprintf("Unable to decode read response, got error: %s", "invalid character"))>>)
    ELSE Done(<<c>>, <<>>)

\* What Read leaves.
ReadResponse(data, prior, o) ==
    LET base == ReadBase(data, o) IN
    IF HasError(base.diags)
    THEN [calls |-> base.calls, diags |-> base.diags, stateSet |-> FALSE, state |-> prior]
    ELSE [calls |-> base.calls, diags |-> base.diags, stateSet |-> TRUE,
          state |-> Projection(data, Decode(o))]

\* Read, for the outcomes os the platform may give to GetAppByName.  data is
\* the prior state (req.State.Get).
ReadFrom(os) ==
    /\ ClientReady
    /\ UNCHANGED <<pvars, dataSource>>
    /\ state # Absent
    /\ \E o \in os :
       LET r == ReadResponse(state, state, o) IN
       /\ op' = "Read"
       /\ plan' = Absent
       /\ calls' = r.calls
       /\ diags' = r.diags
       /\ stateSet' = r.stateSet
       /\ state' = r.state
       /\ budget' = Left(budget, o)
       /\ created' = created

-----------------------------------------------------------------------------
(* The app data source (AppDataSource)                                     *)

\* A data source with the configuration cfg (Absent when the configuration
\* declares none), before its Read.
DataSource(cfg) ==
    [config |-> cfg, op |-> "none", calls |-> <<>>, diags |-> <<>>,
     stateSet |-> FALSE, state |-> Absent]

\* AppDataSource.Configure: d.client is set from the provider's data, and
\* only when there is one.
DataSourceClientReady == providerData # Nil

\* d.client.GetAppByName and the handling of its outcome up to the decode.
DataSourceReadBase(data, o) ==
    LET c == Call("GetAppByName", [name |-> ValueString(data.Name)], o) IN
    IF o.err # NoError
    THEN Done(<<c>>, <<Diagnostic("Reading App info failed",
                 Sprintf("Unable to read app info, got error: %s", o.err))>>)
    ELSE IF o.StatusCode # StatusOK
    THEN IF o.readErr # NoError
         THEN Done(<<c>>, <<Diagnostic("reading response payload failed", Error(o.readErr))>>)
         ELSE Done(<<c>>, <<Diagnostic("Reading App info failed",
                 Sprintf("Unable to read app info, got error: %s", o.Body.text))>>)
    ELSE IF ~DecodeOK(o)
    THEN Done(<<c>>, <<Diagnostic("Decoding read response failed",
                 Sprintf("Unable to decode read response, got error: %s", "invalid character"))>>)
    ELSE Done(<<c>>, <<>>)

\* DataSourceProjection with the name of the configuration kept.
DataSourceProjection_KeepsName(data, project) ==
    LET enable == Len(project.Node.IP) > 0 IN
    [data EXCEPT
       !.ID = StringValue(project.ID),
       !.PlanID = StringValue(project.PlanID),
       !.BundlePlanID = StringValue(project.BundlePlanID),
       !.Platform = StringValue(project.Type),
       !.ReadOnlyRootFilesystem = BoolValue(project.ReadOnlyRootFilesystem),
       !.NetworkName = StringValue(project.Network.Name),
       !.RollingUpdate = BoolValue(project.ZeroDowntime),
       !.TurnOff = BoolValue(project.Scale = 0),
       !.Envs = MapValueMust(EnvMap(project.Envs)),
       !.EnableStaticIP = BoolValue(enable),
       !.StaticIP = IF enable THEN StringValue(project.Node.IP) ELSE @,
       !.DisableDefaultSubDomain = BoolValue(~project.DefaultSubdomain)]

\* The assignments of the data source's Read to data, from the decoded
\* project.
DataSourceProjection(data, project) ==
    LET enable == Len(project.Node.IP) > 0 IN
    [data EXCEPT
       !.ID = StringValue(project.ID),
       !.Name = StringValue(project.ID),
       !.PlanID = StringValue(project.PlanID),
       !.BundlePlanID = StringValue(project.BundlePlanID),
       !.Platform = StringValue(project.Type),
       !.ReadOnlyRootFilesystem = BoolValue(project.ReadOnlyRootFilesystem),
       !.NetworkName = StringValue(project.Network.Name),
       !.RollingUpdate = BoolValue(project.ZeroDowntime),
       !.TurnOff = BoolValue(project.Scale = 0),
       !.Envs = MapValueMust(EnvMap(project.Envs)),
       !.EnableStaticIP = BoolValue(enable),
       !.StaticIP = IF enable THEN StringValue(project.Node.IP) ELSE @,
       !.DisableDefaultSubDomain = BoolValue(~project.DefaultSubdomain)]

\* What the data source's Read leaves.  data is the configuration
\* (req.Config.Get); the state is set only at the end.
DataSourceReadResponse(data, o) ==
    LET base == DataSourceReadBase(data, o) IN
    IF HasError(base.diags)
    THEN [calls |-> base.calls, diags |-> base.diags, stateSet |-> FALSE, state |-> Absent]
    ELSE [calls |-> base.calls, diags |-> base.diags, stateSet |-> TRUE,
          state |-> DataSourceProjection(data, Decode(o))]

\* The data source's Read, for the outcomes os the platform may give to
\* GetAppByName.
DataSourceRead(os) ==
    /\ DataSourceClientReady
    /\ dataSource.config # Absent
    /\ dataSource.op = "none"
    /\ \E o \in os :
       LET r == DataSourceReadResponse(dataSource.config, o) IN
       dataSource' = [dataSource EXCEPT
                        !.op = "Read", !.calls = r.calls, !.diags = r.diags,
                        !.stateSet = r.stateSet, !.state = r.state]
    /\ UNCHANGED <<state, op, calls, diags, stateSet, created, budget, plan, pvars>>

-----------------------------------------------------------------------------
(* Update                                                                  *)

\* r.client.ChangePlan and the handling of its outcome.
UpdateBase(data, o) ==
    LET c == Call("ChangePlan",
                  [name |-> ValueString(data.Name),
                   PlanID |-> String(data.PlanID)], o) IN
    IF o.err # NoError
    THEN Done(<<c>>, <<Diagnostic("App creation failed",
                 Sprintf("Unable to create app, got error: %s", o.err))>>)
    ELSE IF o.StatusCode # StatusOK
    THEN IF o.readErr # NoError
         THEN Done(<<c>>, <<Diagnostic("reading update response payload failed", Error(o.readErr))>>)
         ELSE Done(<<c>>, <<Diagnostic("App creation failed",
                 Sprintf("Unable to create app, got error: %s", o.Body.text))>>)
    ELSE Done(<<c>>, <<>>)

\* UpdateToggles with updateEnvs run only for a map that has elements.
UpdateToggles_SkipsEmptyEnvs(data, o) ==
    LET t1 == IF ValueBool(data.TurnOff) THEN turnOff(data, o.power) ELSE Skipped
        t2 == IF ValueBool(data.RollingUpdate) THEN rollingUpdate(data, o.rolling) ELSE Skipped
        t3 == IF ~IsNull(data.Envs) /\ DOMAIN data.Envs.elements # {}
              THEN updateEnvs(data, o.envs) ELSE Skipped
        t4 == IF ValueBool(data.EnableStaticIP) THEN enableStaticIP(data, o.ip) ELSE Skipped
        t5 == IF ValueBool(data.DisableDefaultSubDomain)
              THEN disableDefaultSubdomain(data, o.subdomain) ELSE Skipped
    IN Done(t1.calls \o t2.calls \o t3.calls \o t4.calls \o t5.calls,
            t1.diags \o t2.diags \o t3.diags \o t4.diags \o t5.diags)

\* The five conditional helper calls of Update, in the order of the code.
UpdateToggles(data, o) ==
    LET t1 == IF ValueBool(data.TurnOff) THEN turnOff(data, o.power) ELSE Skipped
        t2 == IF ValueBool(data.RollingUpdate) THEN rollingUpdate(data, o.rolling) ELSE Skipped
        t3 == IF ~IsNull(data.Envs) THEN updateEnvs(data, o.envs) ELSE Skipped
        t4 == IF ValueBool(data.EnableStaticIP) THEN enableStaticIP(data, o.ip) ELSE Skipped
        t5 == IF ValueBool(data.DisableDefaultSubDomain)
              THEN disableDefaultSubdomain(data, o.subdomain) ELSE Skipped
    IN Done(t1.calls \o t2.calls \o t3.calls \o t4.calls \o t5.calls,
            t1.diags \o t2.diags \o t3.diags \o t4.diags \o t5.diags)

\* UpdateResponse with the state set only when no helper failed.
UpdateResponse_FailsOnToggleError(data, prior, ob, o) ==
    LET base == UpdateBase(data, ob)
        t == UpdateToggles(data, o) IN
    IF HasError(base.diags)
    THEN [calls |-> base.calls, diags |-> base.diags, stateSet |-> FALSE, state |-> prior]
    ELSE IF HasError(t.diags)
    THEN [calls |-> base.calls \o t.calls, diags |-> base.diags \o t.diags,
          stateSet |-> FALSE, state |-> prior]
    ELSE [calls |-> base.calls \o t.calls, diags |-> base.diags \o t.diags,
          stateSet |-> TRUE, state |-> data]

\* What Update leaves.
UpdateResponse(data, prior, ob, o) ==
    LET base == UpdateBase(data, ob)
        t == UpdateToggles(data, o) IN
    IF HasError(base.diags)
    THEN [calls |-> base.calls, diags |-> base.diags, stateSet |-> FALSE, state |-> prior]
    ELSE [calls |-> base.calls \o t.calls, diags |-> base.diags \o t.diags,
          stateSet |-> TRUE, state |-> data]

\* Update, for a configuration drawn from cfgs.  It runs when the plan
\* differs from the prior state; the schema gives name no RequiresReplace
\* modifier, so a changed name is planned as an update in place.
Update(cfgs) ==
    /\ ClientReady
    /\ UNCHANGED <<pvars, dataSource>>
    /\ state # Absent
    /\ \E cfg \in cfgs :
       LET data == UpdatePlan(cfg, state) IN
       /\ data # state
       /\ \E ob \in May(budget) :
          LET go == ~Fault(ob)
              b1 == Left(budget, ob) IN
          \E o1 \in For(go /\ ValueBool(data.TurnOff), b1) :
          LET b2 == Left(b1, o1) IN
          \E o2 \in For(go /\ ValueBool(data.RollingUpdate), b2) :
          LET b3 == Left(b2, o2) IN
          \E o3 \in For(go /\ Sends(data.Envs), b3) :
          LET b4 == Left(b3, o3) IN
          \E o4 \in For(go /\ ValueBool(data.EnableStaticIP), b4) :
          LET b5 == Left(b4, o4) IN
          \E o5 \in For(go /\ ValueBool(data.DisableDefaultSubDomain), b5) :
          LET r == UpdateResponse(data, state, ob, HelperOutcomes(o1, o2, o3, o4, o5)) IN
          /\ op' = "Update"
          /\ plan' = data
          /\ created' = created
          /\ budget' = Left(b5, o5)
          /\ calls' = r.calls
          /\ diags' = r.diags
          /\ stateSet' = r.stateSet
          /\ state' = r.state

-----------------------------------------------------------------------------
(* Delete                                                                  *)

\* DeleteBase with the status of the response never looked at.
DeleteBase_IgnoresStatus(data, o) ==
    LET c == Call("DeleteAppByName", [name |-> ValueString(data.Name)], o) IN
    IF o.err # NoError
    THEN Done(<<c>>, <<Diagnostic("Deleting app failed",
                 Sprintf("Unable to delete app, got error: %s", o.err))>>)
    ELSE Done(<<c>>, <<>>)

\* r.client.DeleteAppByName and the handling of its outcome.
DeleteBase(data, o) ==
    LET c == Call("DeleteAppByName", [name |-> ValueString(data.Name)], o) IN
    IF o.err # NoError
    THEN Done(<<c>>, <<Diagnostic("Deleting app failed",
                 Sprintf("Unable to delete app, got error: %s", o.err))>>)
    ELSE IF o.StatusCode # StatusOK
    THEN IF o.readErr # NoError
         THEN Done(<<c>>, <<Diagnostic("reading delete response payload failed", Error(o.readErr))>>)
         ELSE Done(<<c>>, <<Diagnostic("Deleting app failed",
                 Sprintf("Unable to delete app, got error: %s", o.Body.text))>>)
    ELSE Done(<<c>>, <<>>)

\* What Delete leaves.  Delete never sets the state: the framework drops it
\* when Delete ends without an error diagnostic, and keeps it otherwise.
DeleteResponse(prior, o) ==
    LET base == DeleteBase(prior, o) IN
    [calls |-> base.calls, diags |-> base.diags, stateSet |-> FALSE,
     state |-> IF HasError(base.diags) THEN prior ELSE Absent]

Delete ==
    /\ ClientReady
    /\ UNCHANGED <<pvars, dataSource>>
    /\ state # Absent
    /\ \E o \in May(budget) :
       LET r == DeleteResponse(state, o) IN
       /\ op' = "Delete"
       /\ plan' = Absent
       /\ calls' = r.calls
       /\ diags' = r.diags
       /\ stateSet' = r.stateSet
       /\ state' = r.state
       /\ budget' = Left(budget, o)
       /\ created' = IF r.state = Absent THEN "" ELSE created

-----------------------------------------------------------------------------
(* ImportState                                                             *)

\* The resource model with every attribute null.
NullModel ==
    [present |-> TRUE,
     ID |-> StringNull, Name |-> StringNull, PlanID |-> StringNull,
     BundlePlanID |-> StringNull, Platform |-> StringNull,
     ReadOnlyRootFilesystem |-> BoolNull, NetworkName |-> StringNull,
     RollingUpdate |-> BoolNull, TurnOff |-> BoolNull, Envs |-> MapNull,
     StaticIP |-> StringNull, EnableStaticIP |-> BoolNull,
     DisableDefaultSubDomain |-> BoolNull]

\* resource.ImportStatePassthroughID(ctx, path.Root("name"), req, resp)
ImportState ==
    /\ ClientReady
    /\ UNCHANGED <<pvars, dataSource>>
    /\ state = Absent
    /\ \E id \in Names :
       /\ state' = [NullModel EXCEPT !.Name = StringValue(id)]
       /\ created' = id
    /\ op' = "ImportState"
    /\ plan' = Absent
    /\ calls' = <<>>
    /\ diags' = <<>>
    /\ stateSet' = TRUE
    /\ budget' = budget

-----------------------------------------------------------------------------
(* The specifications                                                      *)

\* The number of remote calls one handler can issue: a base call and the
\* five helpers.
MaxCalls == 1 + Cardinality(DOMAIN HelperOutcomes(NoCall, NoCall, NoCall, NoCall, NoCall))

\* Spec: any sequence of operations on one resource instance, from a small
\* set of configurations and remote apps, the platform failing at most
\* MaxFaults calls.
LifeConfigs ==
    { c \in Configs :
        /\ c.PlanID = StringValue("p1")
        /\ c.Envs \in {MapNull, MapValueMust([k \in EnvKeys |-> StringValue("v1")])}
        /\ ValueBool(c.TurnOff) = ValueBool(c.RollingUpdate)
        /\ ValueBool(c.TurnOff) = ValueBool(c.EnableStaticIP)
        /\ ValueBool(c.TurnOff) = ValueBool(c.DisableDefaultSubDomain)
        /\ ValueBool(c.TurnOff) = ~IsNull(c.Envs) }
LifeApps ==
    { r \in RemoteApps :
        /\ r.Envs = <<>> /\ r.ZeroDowntime /\ r.DefaultSubdomain /\ r.Scale \in {0, 3} }

\* The provider blocks and the environments of Spec: the access token set or
\* empty, the rest left to the environment, which is empty or sets every
\* variable.
LifeProviderConfigs ==
    { c \in ProviderConfigs :
        /\ IsNull(c.APIEndpoint) /\ IsNull(c.WebsocketEndpoint) /\ IsNull(c.Timeout)
        /\ ~IsUnknown(c.AccessToken) }
LifeEnvirons ==
    { e \in Environs :
        /\ e.LIARA_ACCESS_TOKEN = ""
        /\ e.LIARA_TIMEOUT \in {<<>>, <<"6", "0">>}
        /\ (e.LIARA_TIMEOUT = <<>>) = (e.LIARA_API_ENDPOINT = "")
        /\ (e.LIARA_TIMEOUT = <<>>) = (e.LIARA_WEBSOCKET_ENDPOINT = "") }

Init ==
    /\ state = Absent
    /\ op = "none"
    /\ calls = <<>>
    /\ diags = <<>>
    /\ stateSet = FALSE
    /\ created = ""
    /\ budget = MaxFaults
    /\ plan = Absent
    /\ environ \in LifeEnvirons
    /\ config \in LifeProviderConfigs
    /\ providerData = Nil
    /\ providerDiags = <<>>
    /\ dataSource = DataSource(Absent)

Next ==
    \/ Configure
    \/ Create(LifeConfigs)
    \/ ImportState
    \/ ReadFrom(GetAppOutcomes(LifeApps, budget))
    \/ Update(LifeConfigs)
    \/ Delete

Spec == Init /\ [][Next]_vars

\* SpecOp: one operation, with every configuration, every remote app and
\* every combination of outcomes of its remote calls, run on a state an
\* earlier operation can have left.
Created(cfg) == CreatePlan(cfg)
OpPriors ==
    LET cfg == CHOOSE c \in LifeConfigs : c.Name = StringValue("app1") /\ ValueBool(c.TurnOff)
        app == CHOOSE r \in LifeApps : r.ID = "65f1c0" /\ r.Node.IP # "" /\ r.Scale = 3
        off == CHOOSE r \in LifeApps : r.ID = "65f1c0" /\ r.Node.IP = "" /\ r.Scale = 0
    IN { Created(cfg),
         Projection(Created(cfg), app),
         Projection(Projection(Created(cfg), app), off) }

\* The provider is configured, from a block that sets the access token and
\* an empty environment.
OpEnviron == CHOOSE e \in LifeEnvirons : e.LIARA_TIMEOUT = <<>>
OpProviderConfig == CHOOSE c \in LifeProviderConfigs : c.AccessToken = StringValue("tok-cfg")

InitOp ==
    /\ state \in {Absent} \cup OpPriors
    /\ op = "none"
    /\ calls = <<>>
    /\ diags = <<>>
    /\ stateSet = FALSE
    /\ created = IF state = Absent THEN "" ELSE "app1"
    /\ budget = MaxCalls
    /\ plan = Absent
    /\ environ = OpEnviron
    /\ config = OpProviderConfig
    /\ providerData = ConfigureResponse(config, environ).data
    /\ providerDiags = ConfigureResponse(config, environ).diags
    /\ dataSource = DataSource(Absent)

NextOp ==
    /\ op = "none"
    /\ \/ Create(Configs)
       \/ ImportState
       \/ ReadFrom(GetAppOutcomes(RemoteApps, budget))
       \/ Update(Configs)
       \/ Delete

SpecOp == InitOp /\ [][NextOp]_vars

\* SpecProj: the round trip of the projection.  An app spec is persisted,
\* the platform answers GetAppByName with the encoding of that spec, and
\* Read projects it back.
RoundTripSpecs ==
    { [present |-> TRUE,
       ID |-> id,
       Name |-> StringValue("app1"),
       PlanID |-> StringValue("p1"),
       BundlePlanID |-> bp,
       Platform |-> StringValue("node"),
       ReadOnlyRootFilesystem |-> BoolValue(ro),
       NetworkName |-> nn,
       RollingUpdate |-> ru,
       TurnOff |-> BoolValue(off),
       Envs |-> ev,
       StaticIP |-> sip,
       EnableStaticIP |-> eip,
       DisableDefaultSubDomain |-> sd] :
      id \in {StringNull, StringValue("65f1c0")},
      bp \in {StringNull, StringValue("b1")},
      ro \in BOOLEAN,
      nn \in {StringNull, StringValue("net1")},
      ru \in {BoolNull, BoolValue(FALSE), BoolValue(TRUE)},
      off \in BOOLEAN,
      ev \in EnvsValues \ {MapValueMust([k \in EnvKeys |-> StringNull])},
      sip \in {StringNull, StringValue(""), StringValue("10.0.0.7")},
      eip \in {BoolNull, BoolValue(FALSE), BoolValue(TRUE)},
      sd \in {BoolValue(FALSE), BoolValue(TRUE)} }

\* The env list of a map of known strings, one entry for each key.
RECURSIVE EnvList(_)
EnvList(elems) ==
    IF DOMAIN elems = {} THEN <<>>
    ELSE LET k == CHOOSE x \in DOMAIN elems : TRUE
             rest == [x \in DOMAIN elems \ {k} |-> elems[x]] IN
         <<Env(k, elems[k].value, FALSE)>> \o EnvList(rest)

\* The remote record that stands for an app spec: each remote field holds
\* the Go value of the attribute the projection reads it into.
Encode(a) ==
    Project(ValueString(a.ID), ValueString(a.Platform),
            ~ValueBool(a.DisableDefaultSubDomain),
            ValueBool(a.ReadOnlyRootFilesystem), ValueBool(a.RollingUpdate),
            IF ValueBool(a.TurnOff) THEN 0 ELSE 1,
            EnvList(a.Envs.elements),
            ValueString(a.PlanID), ValueString(a.BundlePlanID),
            ValueString(a.NetworkName),
            IF ValueBool(a.EnableStaticIP) THEN ValueString(a.StaticIP) ELSE "")

InitProj ==
    /\ state \in RoundTripSpecs
    /\ op = "none"
    /\ calls = <<>>
    /\ diags = <<>>
    /\ stateSet = FALSE
    /\ created = "app1"
    /\ budget = 0
    /\ plan = Absent
    /\ environ = OpEnviron
    /\ config = OpProviderConfig
    /\ providerData = ConfigureResponse(config, environ).data
    /\ providerDiags = ConfigureResponse(config, environ).diags
    /\ dataSource = DataSource(Absent)

NextProj ==
    /\ op = "none"
    /\ ReadFrom({Response(StatusOK, JSONBody(Encode(state)), NoError)})

SpecProj == InitProj /\ [][NextProj]_vars

\* SpecRead: the resource's Read and the data source's Read, each once, in
\* either order, from the same starting record (the prior state of the
\* resource is the configuration of the data source), each with any outcome
\* of GetAppByName.
ReadStarts == OpPriors \cup {[NullModel EXCEPT !.Name = StringValue("app1")]}

InitRead ==
    /\ state \in ReadStarts
    /\ op = "none"
    /\ calls = <<>>
    /\ diags = <<>>
    /\ stateSet = FALSE
    /\ created = "app1"
    /\ budget = MaxCalls
    /\ plan = Absent
    /\ environ = OpEnviron
    /\ config = OpProviderConfig
    /\ providerData = ConfigureResponse(config, environ).data
    /\ providerDiags = ConfigureResponse(config, environ).diags
    /\ dataSource = DataSource(state)

NextRead ==
    \/ op = "none" /\ ReadFrom(GetAppOutcomes(RemoteApps, budget))
    \/ DataSourceRead(GetAppOutcomes(RemoteApps, budget))

SpecRead == InitRead /\ [][NextRead]_vars

\* SpecCfg: the provider's Configure for every provider block and every
\* environment, and then one Create, which needs the client.
InitCfg ==
    /\ state = Absent
    /\ op = "none"
    /\ calls = <<>>
    /\ diags = <<>>
    /\ stateSet = FALSE
    /\ created = ""
    /\ budget = 0
    /\ plan = Absent
    /\ environ \in Environs
    /\ config \in ProviderConfigs
    /\ providerData = Nil
    /\ providerDiags = <<>>
    /\ dataSource = DataSource(Absent)

NextCfg ==
    \/ Configure
    \/ op = "none" /\ Create(LifeConfigs)

SpecCfg == InitCfg /\ [][NextCfg]_vars

-----------------------------------------------------------------------------
(* Vocabulary of the properties                                            *)

\* A call succeeded: no transport error and status 200.
Succeeded(c) == c.resp.err = NoError /\ c.resp.StatusCode = 200
BaseSucceeded == calls # <<>> /\ Succeeded(calls[1])
BaseFailed == calls # <<>> /\ ~Succeeded(calls[1])
Applies == op \in {"Create", "Update"}
CallNames(cs) == [i \in 1..Len(cs) |-> cs[i].call]
Last(seq) == seq[Len(seq)]
\* The name the base call of Create or Update was sent for.
BaseName(c) == IF c.call = "CreateApp" THEN c.args.Name[1] ELSE c.args.name

\* The remote calls of the five toggles, in the order power, rolling-update,
\* envs, static-ip, subdomain.
ToggleOrder == <<"TurnApp", "ZeroDowntime", "UpdateEnvs", "IpStatic", "DefaultSubdomain">>
IsTrue(v) == v = BoolValue(TRUE)
\* The controlling flag of a toggle is set in s.
FlagSet(s, t) ==
    CASE t = "TurnApp" -> IsTrue(s.TurnOff)
      [] t = "ZeroDowntime" -> IsTrue(s.RollingUpdate)
      [] t = "UpdateEnvs" -> s.Envs.state # "null"
      [] t = "IpStatic" -> IsTrue(s.EnableStaticIP)
      [] t = "DefaultSubdomain" -> IsTrue(s.DisableDefaultSubDomain)
\* envs holds a variable whose value is null.
HasNullVariable(s) == \E k \in DOMAIN s.Envs.elements : s.Envs.elements[k].state = "null"
\* The toggle is due: its flag is set and, for envs, no variable is null.
Due(s, t) == FlagSet(s, t) /\ (t = "UpdateEnvs" => ~HasNullVariable(s))
FlaggedToggles(s) == SelectSeq(ToggleOrder, LAMBDA t : FlagSet(s, t))
DueToggles(s) == SelectSeq(ToggleOrder, LAMBDA t : Due(s, t))

-----------------------------------------------------------------------------
(* C1                                                                      *)

\* C1 as stated: a Create whose create-app call succeeds issues, after it,
\* exactly the toggle calls whose flag is set (envs: non-null), each once, in
\* the order power, rolling-update, envs, static-ip, subdomain, whatever the
\* outcomes of the toggles.  Fails for an envs map that holds a null value:
\* updateEnvs returns before its call.
C1_AsStated ==
    (op = "Create" /\ BaseSucceeded) =>
        /\ calls[1].call = "CreateApp"
        /\ CallNames(Tail(calls)) = FlaggedToggles(state)

\* C1 amended: the envs toggle call is issued when envs is non-null and none
\* of its values is null; the rest as stated.
C1_ToggleCalls ==
    (op = "Create" /\ BaseSucceeded) =>
        /\ calls[1].call = "CreateApp"
        /\ CallNames(Tail(calls)) = DueToggles(state)

\* All five toggles failed, and all five were called.
C1_Witness ==
    /\ op = "Create"
    /\ Len(calls) = 6
    /\ \A i \in 2..6 : ~Succeeded(calls[i])

-----------------------------------------------------------------------------
(* C2                                                                      *)

\* C2 as stated: when the base call of Create or Update fails, one fatal
\* diagnostic is recorded, whose detail is the raw body for a non-200
\* status, no toggle is called and no state is set.  Fails for a non-200
\* response whose body cannot be read.
C2_AsStated ==
    (Applies /\ BaseFailed) =>
        /\ Len(calls) = 1
        /\ ~stateSet
        /\ op = "Create" => state = Absent
        /\ Len(diags) = 1
        /\ diags[1].severity = "error"
        /\ calls[1].resp.err = NoError => Last(diags[1].detail) = calls[1].resp.Body.text

\* C2 amended: the detail is the raw body when the body can be read and the
\* read error when it cannot; in every case one fatal diagnostic, no toggle
\* call, and the state is left as it was.
C2_BaseFailureAborts ==
    [][ (op' \in {"Create", "Update"} /\ calls' # <<>> /\ ~Succeeded(calls'[1])) =>
          /\ Len(calls') = 1
          /\ ~stateSet'
          /\ state' = state
          /\ Len(diags') = 1
          /\ diags'[1].severity = "error"
          /\ (calls'[1].resp.err = NoError /\ calls'[1].resp.readErr = NoError)
                => Last(diags'[1].detail) = calls'[1].resp.Body.text
          /\ (calls'[1].resp.err = NoError /\ calls'[1].resp.readErr # NoError)
                => diags'[1].detail = <<calls'[1].resp.readErr>>
          /\ calls'[1].resp.err # NoError
                => Last(diags'[1].detail) = calls'[1].resp.err ]_vars

\* An Update whose change-plan call returned 404.
C2_Witness ==
    /\ op = "Update"
    /\ BaseFailed
    /\ calls[1].resp.StatusCode = 404
    /\ ~stateSet

-----------------------------------------------------------------------------
(* C3                                                                      *)

FailedToggleCalls == { i \in 2..Len(calls) : ~Succeeded(calls[i]) }
\* The envs helper ran and could not convert the map.
ConversionFailed == FlagSet(state, "UpdateEnvs") /\ HasNullVariable(state)

\* C3: a Create or Update whose base call succeeded sets the state, for the
\* app the base call named, whichever toggles failed; the failures are only
\* error diagnostics, one for each.
C3_ToggleErrorsNotFatal ==
    (Applies /\ BaseSucceeded) =>
        /\ stateSet
        /\ state # Absent
        /\ state.Name = StringValue(BaseName(calls[1]))
        /\ Len(diags) = Cardinality(FailedToggleCalls) + (IF ConversionFailed THEN 1 ELSE 0)
        /\ \A i \in 1..Len(diags) : diags[i].severity = "error"

\* An Update with three or more failed toggles that set the state.
C3_Witness ==
    /\ op = "Update"
    /\ BaseSucceeded
    /\ Cardinality(FailedToggleCalls) >= 3
    /\ stateSet

-----------------------------------------------------------------------------
(* C4                                                                      *)

\* The outcome the call named t had among cs, NoCall if it was not made.
OutcomeOf(cs, t) ==
    IF \E i \in 1..Len(cs) : cs[i].call = t
    THEN cs[CHOOSE i \in 1..Len(cs) : cs[i].call = t].resp
    ELSE NoCall
OutcomesOf(cs) ==
    HelperOutcomes(OutcomeOf(cs, "TurnApp"), OutcomeOf(cs, "ZeroDowntime"),
                   OutcomeOf(cs, "UpdateEnvs"), OutcomeOf(cs, "IpStatic"),
                   OutcomeOf(cs, "DefaultSubdomain"))

\* After its base call, Update issued the calls and added the diagnostics
\* that Create's toggle phase gives for the same plan and outcomes.
TogglesAsCreate ==
    LET t == CreateToggles(state, OutcomesOf(Tail(calls))) IN
    /\ Tail(calls) = t.calls
    /\ diags = t.diags

\* C4: Update(S) differs from Create(S) only in its base call, which is
\* change-plan(name, planId) for the name and the plan id of S; the toggle
\* calls, their arguments and the handling of their failures are those of
\* Create.  Fails on the base call: the plan id is sent in its quoted,
\* human-readable rendering.
C4_AsStated ==
    (op = "Update" /\ BaseSucceeded) =>
        /\ calls[1].call = "ChangePlan"
        /\ calls[1].args = [name |-> state.Name.value, PlanID |-> state.PlanID.value]
        /\ TogglesAsCreate

\* The part of C4 about the toggles alone.
C4_TogglePhase == (op = "Update" /\ BaseSucceeded) => TogglesAsCreate

-----------------------------------------------------------------------------
(* C5                                                                      *)

\* C5: Delete issues exactly one remote call, delete-by-name for the name in
\* the prior state, whatever its outcome, and no toggle; a transport error or
\* a status other than 200 gives one fatal diagnostic and the state stays.
C5_DeleteOneCall ==
    [][ op' = "Delete" =>
          /\ Len(calls') = 1
          /\ calls'[1].call = "DeleteAppByName"
          /\ calls'[1].args.name = state.Name.value
          /\ ~stateSet'
          /\ Succeeded(calls'[1]) => (diags' = <<>> /\ state' = Absent)
          /\ ~Succeeded(calls'[1]) =>
                (Len(diags') = 1 /\ diags'[1].severity = "error" /\ state' = state) ]_vars

\* A Delete whose call returned 404.
C5_Witness ==
    /\ op = "Delete"
    /\ Len(calls) = 1
    /\ calls[1].resp.StatusCode = 404
    /\ HasError(diags)
    /\ state # Absent

-----------------------------------------------------------------------------
(* C6                                                                      *)

ReadFailed(body) ==
    Diagnostic("Reading App info failed", <<"Unable to read app info, got error: %s", body>>)

\* C6 as stated: a status other than 200 from getAppByName gives the
\* ReadFailed diagnostic with the body text, and no state is set.  Fails for
\* a response whose body cannot be read.
C6_AsStated ==
    (op = "Read" /\ calls[1].resp.err = NoError /\ calls[1].resp.StatusCode # 200) =>
        /\ diags = <<ReadFailed(calls[1].resp.Body.text)>>
        /\ ~stateSet

\* C6 amended: the diagnostic is ReadFailed with the body text when the body
\* can be read, and "reading response payload failed" with the read error
\* when it cannot; either way the state is exactly the prior state.
C6_ReadStatusError ==
    [][ (op' = "Read" /\ calls'[1].resp.err = NoError /\ calls'[1].resp.StatusCode # 200) =>
          /\ ~stateSet'
          /\ state' = state
          /\ calls'[1].resp.readErr = NoError
                => diags' = <<ReadFailed(calls'[1].resp.Body.text)>>
          /\ calls'[1].resp.readErr # NoError
                => diags' = <<Diagnostic("reading response payload failed",
                                         <<calls'[1].resp.readErr>>)>> ]_vars

\* A Read that got 404 with the body "not found".
C6_Witness ==
    /\ op = "Read"
    /\ calls[1].resp.StatusCode = 404
    /\ diags = <<ReadFailed("not found")>>
    /\ ~stateSet

-----------------------------------------------------------------------------
(* C7                                                                      *)

\* The diagnostics that report a remote call, and the calls that did not
\* succeed, both in order.
CallDiags ==
    SelectSeq(diags, LAMBDA d :
        d.summary \notin {"Value Conversion Error", "Decoding read response failed"})
FailedCalls == SelectSeq(calls, LAMBDA c : ~Succeeded(c))
\* A base call counts as a success: the handler went on to its end.
BaseCounted ==
    /\ op \in {"Create", "Update"} => (stateSet <=> Succeeded(calls[1]))
    /\ op = "Read" => (stateSet => Succeeded(calls[1]))
    /\ op = "Read" => (CallDiags = <<>> <=> Succeeded(calls[1]))
    /\ op = "Delete" => (state = Absent <=> Succeeded(calls[1]))

\* C7 as stated: each of the nine calls counts as a success exactly when its
\* status is 200; any other status, 201 included, is a failure reported with
\* the raw body as its detail.  Fails for a body that cannot be read.
C7_AsStated ==
    calls # <<>> =>
        /\ BaseCounted
        /\ Len(CallDiags) = Len(FailedCalls)
        /\ \A j \in 1..Len(FailedCalls) :
              /\ CallDiags[j].severity = "error"
              /\ FailedCalls[j].resp.err = NoError
                    => Last(CallDiags[j].detail) = FailedCalls[j].resp.Body.text

\* C7 amended: the detail is the raw body when the body can be read, and the
\* read error alone when it cannot.
C7_SuccessIs200 ==
    calls # <<>> =>
        /\ BaseCounted
        /\ Len(CallDiags) = Len(FailedCalls)
        /\ \A j \in 1..Len(FailedCalls) :
              LET r == FailedCalls[j].resp IN
              /\ CallDiags[j].severity = "error"
              /\ (r.err = NoError /\ r.readErr = NoError)
                    => Last(CallDiags[j].detail) = r.Body.text
              /\ (r.err = NoError /\ r.readErr # NoError)
                    => CallDiags[j].detail = <<r.readErr>>

\* A power toggle that got 201 and was reported with the body "created".
C7_Witness ==
    /\ Len(calls) >= 2
    /\ calls[2].call = "TurnApp"
    /\ calls[2].resp.StatusCode = 201
    /\ Len(diags) >= 1
    /\ Last(diags[1].detail) = "created"

-----------------------------------------------------------------------------
(* C8                                                                      *)

\* C8: the name in the persisted state is the name the instance was created
\* (or imported) with, after any sequence of operations.  Fails after a Read
\* (name is overwritten with the remote id) and after an Update whose plan
\* changes the name (applied in place).
C8_AsStated == state # Absent => state.Name = StringValue(created)

-----------------------------------------------------------------------------
(* C9                                                                      *)

RoundTripped ==
    {"ID", "PlanID", "BundlePlanID", "Platform", "ReadOnlyRootFilesystem", "NetworkName",
     "RollingUpdate", "Envs", "EnableStaticIP", "StaticIP", "DisableDefaultSubDomain"}
Reproduced(a, b) == \A f \in RoundTripped : a[f] = b[f]
\* Every round-tripped attribute of a other than static_ip has a value, and
\* static_ip is a non-empty address when enable_static_ip is true.
FullySet(a) ==
    /\ \A f \in RoundTripped \ {"StaticIP"} : a[f].state = "known"
    /\ a.EnableStaticIP = BoolValue(TRUE) =>
          (a.StaticIP.state = "known" /\ a.StaticIP.value # "")

-----------------------------------------------------------------------------
(* C10                                                                     *)

\* The scale in the body of the response Read decoded.
ScaleRead == calls[1].resp.Body.project.Scale

\* C10: after a successful Read, turn_off is true when the remote scale is 0
\* and false when it is anything else.
C10_TurnOffIffScaleZero ==
    (op = "Read" /\ stateSet) =>
        /\ ScaleRead = 0 => state.TurnOff = BoolValue(TRUE)
        /\ ScaleRead # 0 => state.TurnOff = BoolValue(FALSE)

\* A Read that found scale 3 and gave turn_off false.
C10_Witness ==
    /\ op = "Read"
    /\ stateSet
    /\ ScaleRead = 3
    /\ state.TurnOff = BoolValue(FALSE)

-----------------------------------------------------------------------------
(* C11                                                                     *)

\* The node address in the body of the response Read decoded.
IPRead == calls[1].resp.Body.project.Node.IP
\* The attribute carries no value: it is null or the empty string.
NoValue(v) == v.state = "null" \/ v.value = ""

\* C11: after a successful Read, enable_static_ip is true iff the remote
\* node.IP is non-empty; static_ip equals node.IP when it is non-empty and
\* carries no value when it is empty.  Fails when node.IP is empty and the
\* prior state held an address: Read leaves the address in place.
C11_AsStated ==
    (op = "Read" /\ stateSet) =>
        /\ state.EnableStaticIP = BoolValue(IPRead # "")
        /\ IPRead # "" => state.StaticIP = StringValue(IPRead)
        /\ IPRead = "" => NoValue(state.StaticIP)

\* The part of C11 that the code gives: the flag, and the address when the
\* remote has one.
C11_StaticIPWhenAddress ==
    (op = "Read" /\ stateSet) =>
        /\ state.EnableStaticIP = BoolValue(IPRead # "")
        /\ IPRead # "" => state.StaticIP = StringValue(IPRead)

-----------------------------------------------------------------------------
(* C12                                                                     *)

\* No two calls of cs are calls of the same remote operation.
EachOnce(cs) == \A i, j \in 1..Len(cs) : cs[i].call = cs[j].call => i = j

\* C12: within one Create, Read, Update or Delete every remote operation is
\* invoked at most once, whatever the outcomes: at most six calls (the base
\* call and the five toggles) for Create and Update, one for Read and Delete,
\* and a failed call is not issued again.
C12_NoRetries ==
    /\ Len(calls) <= 6
    /\ EachOnce(calls)
    /\ op \in {"Read", "Delete"} => Len(calls) = 1
    /\ op = "ImportState" => calls = <<>>

\* An Update of six calls whose rolling-update call failed and that went on
\* to the envs call.
C12_Witness ==
    /\ op = "Update"
    /\ Len(calls) = 6
    /\ calls[3].call = "ZeroDowntime"
    /\ ~Succeeded(calls[3])
    /\ calls[4].call = "UpdateEnvs"

-----------------------------------------------------------------------------
(* C13                                                                     *)

\* C13: Create and Update never call GetAppByName, and when their base call
\* succeeded the state they set is, attribute by attribute, the plan they
\* were given, whatever the toggles returned.
C13_PersistsPlan ==
    Applies =>
        /\ \A i \in 1..Len(calls) : calls[i].call # "GetAppByName"
        /\ BaseSucceeded => (stateSet /\ state = plan)
        /\ stateSet => \A f \in DOMAIN plan : state[f] = plan[f]

\* A Create that asked to turn the app off, whose power and static-ip calls
\* failed, and that set the state with turn_off and enable_static_ip true.
C13_Witness ==
    /\ op = "Create"
    /\ stateSet
    /\ \E i, j \in 2..Len(calls) :
          /\ calls[i].call = "TurnApp" /\ ~Succeeded(calls[i])
          /\ calls[j].call = "IpStatic" /\ ~Succeeded(calls[j])
    /\ state.TurnOff = BoolValue(TRUE)
    /\ state.EnableStaticIP = BoolValue(TRUE)

-----------------------------------------------------------------------------
(* C14                                                                     *)

DecodeFailed(d) == d.severity = "error" /\ d.summary = "Decoding read response failed"

\* C14: when getAppByName returns 200 with a body that is not valid JSON,
\* Read records the one DecodeFailed diagnostic and stops: the state is not
\* set and stays exactly the prior state.
C14_DecodeFailureAborts ==
    [][ (op' = "Read" /\ Succeeded(calls'[1]) /\ ~calls'[1].resp.Body.json) =>
          /\ Len(diags') = 1
          /\ DecodeFailed(diags'[1])
          /\ Len(calls') = 1
          /\ ~stateSet'
          /\ state' = state ]_vars

\* A Read that got 200 with an HTML page and failed to decode it.
C14_Witness ==
    /\ op = "Read"
    /\ Succeeded(calls[1])
    /\ calls[1].resp.Body = Malformed
    /\ Len(diags) = 1
    /\ DecodeFailed(diags[1])
    /\ ~stateSet

-----------------------------------------------------------------------------
(* C15                                                                     *)

\* Configure has run.
ConfigureRan == providerData # Nil \/ providerDiags # <<>>
\* The decimal texts among the values of LIARA_TIMEOUT, and their numbers.
TimeoutTexts == {<<"6", "0">>, <<"-", "5">>}
TimeoutOf(text) == IF text = <<"6", "0">> THEN 60 ELSE 0 - 5
\* The precedence of the claim: the configuration value when it is not null,
\* else the environment variable when it is not empty, else the default.
Precedence(cfg, env, default) ==
    IF cfg.state # "null" THEN cfg.value
    ELSE IF env # "" THEN env
    ELSE default
TimeoutPrecedence ==
    IF config.Timeout.state # "null" THEN config.Timeout.value
    ELSE IF environ.LIARA_TIMEOUT # <<>> THEN TimeoutOf(environ.LIARA_TIMEOUT)
    ELSE 30
EndpointResolved == Precedence(config.APIEndpoint, environ.LIARA_API_ENDPOINT, "https://api.iran.liara.ir")
WebsocketResolved == Precedence(config.WebsocketEndpoint, environ.LIARA_WEBSOCKET_ENDPOINT, "wss://api.iran.liara.ir")
TokenResolved == Precedence(config.AccessToken, environ.LIARA_ACCESS_TOKEN, "")
AnyUnknown == \E a \in DOMAIN config : config[a].state = "unknown"
AnyMissing == EndpointResolved = "" \/ WebsocketResolved = "" \/ TokenResolved = ""
\* The bundle Configure handed over holds the values the precedence gives.
BundleByPrecedence ==
    /\ providerData # Nil
    /\ providerData[1].APIEndpoint = EndpointResolved
    /\ providerData[1].WebsocketEndpoint = WebsocketResolved
    /\ providerData[1].AccessToken = TokenResolved
    /\ providerData[1].HTTPClient.Timeout.seconds = TimeoutPrecedence

\* C15: each of endpoint, websocket endpoint, credential and timeout is
\* resolved to the configuration value when that is set, else to the
\* environment variable when that is not empty, else to the default (for a
\* configuration that passes validation, and a timeout the precedence gives a
\* number for).  Fails when timeout is set in the configuration and
\* LIARA_TIMEOUT holds a text that is no number: Configure stops on the
\* environment variable that the configuration overrides.
C15_AsStated ==
    (/\ ConfigureRan
     /\ ~AnyUnknown
     /\ ~AnyMissing
     /\ \/ config.Timeout.state # "null"
        \/ environ.LIARA_TIMEOUT \in TimeoutTexts \cup {<<>>})
    => BundleByPrecedence

\* The precedence, for the environments whose LIARA_TIMEOUT is unset or a
\* number.
C15_Precedence ==
    (/\ ConfigureRan
     /\ ~AnyUnknown
     /\ ~AnyMissing
     /\ environ.LIARA_TIMEOUT \in TimeoutTexts \cup {<<>>})
    => BundleByPrecedence

-----------------------------------------------------------------------------
(* C16                                                                     *)

\* C16: when a configuration value is unknown, or endpoint, websocket
\* endpoint or credential is empty after resolution, Configure ends with an
\* error diagnostic and hands over no bundle, and no handler has issued or
\* can issue a remote call: every remote call was issued under a bundle that
\* Configure handed over without an error.
C16_ValidationBeforeCalls ==
    /\ (ConfigureRan /\ (AnyUnknown \/ AnyMissing)) =>
          /\ HasError(providerDiags)
          /\ providerData = Nil
          /\ calls = <<>>
          /\ op = "none"
          /\ ~ENABLED Create(LifeConfigs)
    /\ calls # <<>> => (providerData # Nil /\ ~HasError(providerDiags))
    /\ HasError(providerDiags) => providerData = Nil

\* Configure found the endpoint unknown (and so empty) and the access token
\* empty, and handed over nothing.
C16_Witness ==
    /\ providerData = Nil
    /\ Len(providerDiags) = 3
    /\ providerDiags[1].summary = "Unknown Liara API Endpoint"
    /\ providerDiags[2].summary = "Missing Liara API Endpoint"
    /\ providerDiags[3].summary = "Missing Liara Access Token"

-----------------------------------------------------------------------------
(* C17                                                                     *)

\* The titles under which a toggle reports the failure of its call.
ToggleTitles(t) ==
    CASE t = "TurnApp" ->
           {"Turning off the app failed", "reading turn-off response payload failed"}
      [] t = "ZeroDowntime" ->
           {"Updating rolling-update configuration failed",
            "reading rolling-update response payload failed"}
      [] t = "UpdateEnvs" ->
           {"Updating envs failed", "reading envs response payload failed"}
      [] t = "IpStatic" ->
           {"Enabling static ip failed", "reading static ip response payload failed"}
      [] t = "DefaultSubdomain" ->
           {"Disabling default subdomain failed",
            "reading default subdomain response payload failed"}
\* The call of toggle t was made and failed.
CallFailed(t) == \E i \in 2..Len(calls) : calls[i].call = t /\ ~Succeeded(calls[i])
\* The enabled toggles that failed, in toggle order: those whose call failed,
\* and envs when its map could not be converted.
FailedToggles ==
    SelectSeq(ToggleOrder, LAMBDA t :
        /\ FlagSet(state, t)
        /\ CallFailed(t) \/ (t = "UpdateEnvs" /\ HasNullVariable(state)))

\* C17 as stated: after a Create or Update whose base call succeeded there is
\* one error diagnostic for each enabled toggle that failed, in toggle order,
\* each under a title of its toggle.  Fails for an envs map with a null
\* value: the diagnostic is the conversion error, under no title of the
\* toggle.
C17_AsStated ==
    (Applies /\ BaseSucceeded) =>
        /\ Len(diags) = Len(FailedToggles)
        /\ \A i \in 1..Len(diags) :
              /\ diags[i].severity = "error"
              /\ diags[i].summary \in ToggleTitles(FailedToggles[i])

\* C17 amended: a toggle whose call failed is reported under a title of that
\* toggle; the envs toggle that could not convert its map is reported by the
\* conversion error; one diagnostic each, in toggle order.
C17_OneDiagnosticPerFailedToggle ==
    (Applies /\ BaseSucceeded) =>
        /\ Len(diags) = Len(FailedToggles)
        /\ \A i \in 1..Len(diags) :
              /\ diags[i].severity = "error"
              /\ CallFailed(FailedToggles[i])
                    => diags[i].summary \in ToggleTitles(FailedToggles[i])
              /\ ~CallFailed(FailedToggles[i])
                    => diags[i].summary = "Value Conversion Error"

\* An Update whose power call could not be read, whose envs could not be
\* converted and whose subdomain call got 404: three diagnostics, in order.
C17_Witness ==
    /\ op = "Update"
    /\ BaseSucceeded
    /\ Len(diags) = 3
    /\ diags[1].summary = "reading turn-off response payload failed"
    /\ diags[2].summary = "Value Conversion Error"
    /\ diags[3].summary = "Disabling default subdomain failed"
    /\ stateSet

-----------------------------------------------------------------------------
(* C18                                                                     *)

\* Only envs is set among the controlling flags of s.
OnlyEnvs(s) == \A t \in {"TurnApp", "ZeroDowntime", "IpStatic", "DefaultSubdomain"} : ~FlagSet(s, t)
EmptyVariables == [k \in {} |-> ""]

\* C18: a Create or Update whose base call succeeded, with envs the empty
\* map and every other flag false, issues exactly two calls, the base call
\* and then the envs call for the name with no variable; with envs null it
\* issues no envs call.
C18_EnvsFiresWhenPresent ==
    (Applies /\ BaseSucceeded) =>
        /\ (state.Envs = MapValueMust(NoElements) /\ OnlyEnvs(state)) =>
              /\ Len(calls) = 2
              /\ calls[2].call = "UpdateEnvs"
              /\ calls[2].args.Project = <<state.Name.value>>
              /\ DOMAIN calls[2].args.Variables = {}
        /\ state.Envs.state = "null" =>
              \A i \in 1..Len(calls) : calls[i].call # "UpdateEnvs"

\* An Update with envs empty and nothing else set, of two calls.
C18_Witness ==
    /\ op = "Update"
    /\ state.Envs = MapValueMust(NoElements)
    /\ OnlyEnvs(state)
    /\ Len(calls) = 2
    /\ calls[2].call = "UpdateEnvs"
    /\ calls[2].args.Variables = EmptyVariables

-----------------------------------------------------------------------------
(* C19                                                                     *)

-----------------------------------------------------------------------------
(* C20                                                                     *)

\* The project in the body of the response Read decoded.
ProjectRead(cs) == cs[1].resp.Body.project
\* The map holds, for each key of the list, the value of its last entry.
MapOfList(m, list) ==
    /\ m.state = "known"
    /\ DOMAIN m.elements = { list[i].Key : i \in 1..Len(list) }
    /\ \A i \in 1..Len(list) :
          (\A j \in (i + 1)..Len(list) : list[j].Key # list[i].Key)
             => m.elements[list[i].Key] = StringValue(list[i].Value)

\* C20: a successful Read writes every attribute but static_ip from the
\* response; static_ip is written only when node.IP is non-empty, and is
\* otherwise the static_ip of the prior state, with enable_static_ip false.
C20_ReadOverwritesAllButStaticIP ==
    [][ (op' = "Read" /\ stateSet') =>
          LET p == ProjectRead(calls') IN
          /\ state'.ID = StringValue(p.ID)
          /\ state'.Name = StringValue(p.ID)
          /\ state'.PlanID = StringValue(p.PlanID)
          /\ state'.BundlePlanID = StringValue(p.BundlePlanID)
          /\ state'.Platform = StringValue(p.Type)
          /\ state'.ReadOnlyRootFilesystem = BoolValue(p.ReadOnlyRootFilesystem)
          /\ state'.NetworkName = StringValue(p.Network.Name)
          /\ state'.RollingUpdate = BoolValue(p.ZeroDowntime)
          /\ state'.TurnOff = BoolValue(p.Scale = 0)
          /\ MapOfList(state'.Envs, p.Envs)
          /\ state'.DisableDefaultSubDomain = BoolValue(~p.DefaultSubdomain)
          /\ state'.EnableStaticIP = BoolValue(p.Node.IP # "")
          /\ p.Node.IP # "" => state'.StaticIP = StringValue(p.Node.IP)
          /\ p.Node.IP = "" => state'.StaticIP = state.StaticIP ]_vars

\* A Read that found no address and left the address of the prior state,
\* with enable_static_ip false.
C20_Witness ==
    /\ op = "Read"
    /\ stateSet
    /\ ProjectRead(calls).Node.IP = ""
    /\ state.StaticIP = StringValue("10.0.0.7")
    /\ state.EnableStaticIP = BoolValue(FALSE)

-----------------------------------------------------------------------------
(* C21                                                                     *)

\* The thirteen attributes of the app.
Attributes ==
    {"ID", "Name", "PlanID", "BundlePlanID", "Platform", "ReadOnlyRootFilesystem",
     "NetworkName", "RollingUpdate", "TurnOff", "Envs", "StaticIP", "EnableStaticIP",
     "DisableDefaultSubDomain"}
\* Both Reads have run, and GetAppByName gave both the same outcome.
BothRead ==
    /\ op = "Read"
    /\ dataSource.op = "Read"
    /\ calls # <<>> /\ dataSource.calls # <<>>
    /\ calls[1].resp = dataSource.calls[1].resp

\* C21: from the same starting record and for the same outcome of
\* getAppByName (transport error, status other than 200, malformed body, or
\* an app), the data source's Read and the resource's Read each issue the one
\* getAppByName call, for the same name, add the same diagnostics, and when
\* they set their state give the same value to each of the thirteen
\* attributes.
C21_SameRead ==
    /\ op = "Read" => (Len(calls) = 1 /\ calls[1].call = "GetAppByName")
    /\ dataSource.op = "Read" =>
          (Len(dataSource.calls) = 1 /\ dataSource.calls[1].call = "GetAppByName")
    /\ BothRead =>
          /\ calls = dataSource.calls
          /\ diags = dataSource.diags
          /\ stateSet = dataSource.stateSet
          /\ stateSet => \A f \in Attributes : state[f] = dataSource.state[f]

\* Both Reads found the app under an opaque id with no address, and both
\* kept the address of the starting record.
C21_Witness ==
    /\ BothRead
    /\ stateSet
    /\ dataSource.stateSet
    /\ dataSource.state.Name = StringValue("65f1c0")
    /\ dataSource.state.StaticIP = StringValue("10.0.0.7")
    /\ dataSource.state.EnableStaticIP = BoolValue(FALSE)
    /\ dataSource.config.StaticIP = StringValue("10.0.0.7")
    /\ state = dataSource.state

====
